---- MODULE Spec2Model ----
(***************************************************************************)
(* Model of the workshop checkout flow of payments/views.py:               *)
(* WorkshopList, WorkshopDetail, OrderDetail, ConfirmOrder, SubmitOrder    *)
(* and OrderCallback, over per-user sessions and the Order / OrderItem     *)
(* tables.  Every request is one atomic step except SubmitOrder.post,      *)
(* whose database statements (capacity read, Order insert, OrderItem bulk  *)
(* insert) are separate steps that interleave with other users' requests;  *)
(* a user has one request in flight at a time.                             *)
(*                                                                         *)
(* models.py and forms.py are not part of the sources at hand: the rows of *)
(* Workshop and Rate, Rate.ticket_count, Workshop.filter_rates and the     *)
(* validation of OrderForm follow the written specification.  The contact  *)
(* email and the attendees' names and emails are carried through the flow  *)
(* unchanged and are left out of the records.                              *)
(***************************************************************************)
EXTENDS Integers, Sequences, FiniteSets, TLC

\* ---------------------------------------------------------------- bounds
MaxOrders == 2      \* Orders that may be inserted before the model stops selling
MaxQty == 2         \* largest quantity typed into one rate field

\* ------------------------------------------------------------ static data
Users == {"u1", "u2"}

\* request.user.is_authenticated(): u2 is a logged-in administrator
is_authenticated(u) == u = "u2"

None == "None"      \* Python None / a key missing from a dict

Slugs == {"w1", "w2", "w3"}

\* Workshop rows (models.py is read-only to the checkout flow)
Workshop(slug) ==
    CASE slug = "w1" -> [draft |-> FALSE, public |-> TRUE,  private_code |-> ""]
      [] slug = "w2" -> [draft |-> FALSE, public |-> FALSE, private_code |-> "c1"]
      [] slug = "w3" -> [draft |-> TRUE,  public |-> TRUE,  private_code |-> ""]

RateIds == {"r1", "r2", "r3"}

\* Rate rows: prices are in cents (Decimal with two places)
Rate(id) ==
    CASE id = "r1" -> [workshop |-> "w1", name |-> "standard", price |-> 150,
                       capacity |-> 2, discount |-> FALSE, discount_code |-> ""]
      [] id = "r2" -> [workshop |-> "w1", name |-> "student", price |-> 75,
                       capacity |-> 1, discount |-> TRUE, discount_code |-> "d1"]
      [] id = "r3" -> [workshop |-> "w2", name |-> "standard", price |-> 225,
                       capacity |-> 1, discount |-> FALSE, discount_code |-> ""]

\* values a visitor may pass as ?code= and ?rate= ("" is an empty parameter)
AccessCodes == {"", "c1", "zz"}
DiscountCodes == {"d1"}
\* the name every user types into the contact field of the Rate Selector
contact_name(u) == IF u = "u1" THEN "Jane Doe" ELSE "Madonna"
ContactNames == {contact_name(u) : u \in Users}
\* names a purchaser may type instead
PurchaserNames == ContactNames \cup {"Mary Ann O'Hara", "Ann "}

\* the characters of a name (a str as the sequence of its characters)
chars(name) ==
    CASE name = "Jane Doe" -> <<"J", "a", "n", "e", " ", "D", "o", "e">>
      [] name = "Madonna" -> <<"M", "a", "d", "o", "n", "n", "a">>
      [] name = "Mary Ann O'Hara" -> <<"M", "a", "r", "y", " ", "A", "n", "n", " ",
                                       "O", "'", "H", "a", "r", "a">>
      [] name = "Ann " -> <<"A", "n", "n", " ">>
Amounts == {"10.00", "12.50"}
DateTimes == {"t1", "t2"}
CallbackFields == {"unique_id", "amount", "date_time"}

VARIABLES
    session,    \* request.session of every user: private_code, discount_code, order
    orders,     \* the Order table, indexed by transaction_id
    items,      \* the OrderItem table, in insertion order
    pc,         \* position of every user's SubmitOrder.post request
    order,      \* the local variable order of a running SubmitOrder.post (an Order id)
    gateway,    \* payloads posted to settings.PAYMENT_URL
    resp,       \* the HTTP response of the request served last
    last_code,  \* history: the last non-empty ?code= a user passed to the Catalog
    placed      \* history: the session tickets every Order was created from

vars == <<session, orders, items, pc, order, gateway, resp, last_code, placed>>

\* ------------------------------------------------------------- responses
NoResp == [kind |-> "none", status |-> 0, slug |-> "", rate |-> "",
           remaining |-> 0, listing |-> {}, purchasable |-> FALSE, forms |-> <<>>]

\* HttpResponseRedirect(reverse(name, kwargs={'slug': slug}))
Redirect(name, slug) == [NoResp EXCEPT !.kind = name, !.status = 302, !.slug = slug]

\* a rendered template
Page(name, slug) == [NoResp EXCEPT !.kind = name, !.status = 200, !.slug = slug]

\* an exception no view catches: Django answers with the 500 error page
ServerError == [NoResp EXCEPT !.kind = "error", !.status = 500]

\* ------------------------------------------------------------- sessions
NoOrder == <<>>     \* 'order' not in request.session

EmptySession == [private_code |-> None, discount_code |-> None, order |-> NoOrder]

has_order(u) == session[u].order # NoOrder

\* ------------------------------------------------------------------ Init
Init ==
    /\ session = [u \in Users |-> EmptySession]
    /\ orders = <<>>
    /\ items = <<>>
    /\ pc = [u \in Users |-> "idle"]
    /\ order = [u \in Users |-> 0]
    /\ gateway = <<>>
    /\ resp = NoResp
    /\ last_code = [u \in Users |-> None]
    /\ placed = <<>>

\* ------------------------------------------------------- Workshop Catalog
\* Workshop.objects.filter(private_code=code)
by_private_code(code) == {s \in Slugs : Workshop(s).private_code = code}

\* Workshop.objects.filter(draft=False)
not_draft == {s \in Slugs : ~Workshop(s).draft}

\* WorkshopList.get_queryset; a code of None or "" is falsy
get_queryset(private_code) ==
    LET queryset == IF private_code \notin {None, ""}
                    THEN by_private_code(private_code) ELSE {}
    IN  IF queryset = {} THEN not_draft ELSE queryset

\* mutant: the code is stored whether or not it is empty
store_private_code_always(old, code) == code

\* WorkshopList.get's session write: only a truthy code is stored
store_private_code(old, code) == IF code \notin {None, ""} THEN code ELSE old

\* WorkshopList.get: GET /?code=<code>
WorkshopList_get(u, code) ==
    /\ pc[u] = "idle"
    /\ session' = [session EXCEPT ![u].private_code = store_private_code(@, code)]
    /\ last_code' = [last_code EXCEPT ![u] = IF code \notin {None, ""} THEN code ELSE @]
    /\ resp' = [Page("index", "") EXCEPT !.listing = get_queryset(code)]
    /\ UNCHANGED <<orders, items, pc, order, gateway, placed>>

\* --------------------------------------------------------- Rate Selector
RateOrder == <<"r1", "r2", "r3">>   \* the default ordering of Rate querysets (by id)

\* Workshop.filter_rates(discount_code): the rates without a discount and
\* the discount rates whose code is exactly the given one
offered(slug, discount_code, id) ==
    /\ Rate(id).workshop = slug
    /\ (~Rate(id).discount \/ Rate(id).discount_code = discount_code)

filter_rates(slug, discount_code) ==
    SelectSeq(RateOrder, LAMBDA id : offered(slug, discount_code, id))

\* Rate.ticket_count: the OrderItem rows that reference the rate
ticket_count(id) == Cardinality({i \in DOMAIN items : items[i].rate = id})

\* the purchasable flag of WorkshopDetail.get_context_data
purchasable(slug, code) ==
    Workshop(slug).public \/ (~Workshop(slug).public /\ code = Workshop(slug).private_code)

Range(seq) == {seq[i] : i \in DOMAIN seq}

\* mutant: a view without a rate parameter keeps the code of an earlier view
store_discount_code_if_given(old, rate) == IF rate # None THEN rate ELSE old

\* WorkshopDetail.get's session write (line 72): GET.get('rate'), None included
store_discount_code(old, rate) == rate

\* WorkshopDetail.get: GET /<slug>/?rate=<rate>
WorkshopDetail_get(u, slug, rate) ==
    /\ pc[u] = "idle"
    /\ session' = [session EXCEPT ![u].discount_code = store_discount_code(@, rate)]
    /\ resp' = IF ~is_authenticated(u) /\ Workshop(slug).draft
               THEN Redirect("index", "")
               ELSE [Page("details", slug) EXCEPT
                       !.listing = Range(filter_rates(slug, rate)),
                       !.purchasable = purchasable(slug, session[u].private_code)]
    /\ UNCHANGED <<orders, items, pc, order, gateway, last_code, placed>>

\* str(Decimal): the units and the two decimal places of an amount in cents
DecimalStr(cents) == <<cents \div 100, cents % 100>>

\* Decimal(str): the amount in cents that a decimal string denotes
ParseDecimal(str) == str[1] * 100 + str[2]

\* mutant: the total is overwritten, not accumulated, by every rate
order_total_of_last(rate_set, data) ==
    IF rate_set = <<>> THEN 0
    ELSE data[Rate(rate_set[Len(rate_set)]).name] * Rate(rate_set[Len(rate_set)]).price

\* the loop of WorkshopDetail.form_valid: order_total += Decimal(qty) * price
RECURSIVE order_total_of(_, _)
order_total_of(rate_set, data) ==
    IF rate_set = <<>> THEN 0
    ELSE data[Rate(Head(rate_set)).name] * Rate(Head(rate_set)).price
         + order_total_of(Tail(rate_set), data)

\* form.rate_set.values('id', 'name')
values_id_name(rate_set) ==
    [i \in DOMAIN rate_set |-> [id |-> rate_set[i], name |-> Rate(rate_set[i]).name]]

\* OrderForm.is_valid: every quantity is at most what is left of its rate
form_is_valid(rate_set, data) ==
    \A i \in DOMAIN rate_set :
        data[Rate(rate_set[i]).name] <= Rate(rate_set[i]).capacity - ticket_count(rate_set[i])

\* the order skeleton WorkshopDetail.form_valid writes into the session:
\* order = form.data.copy() (line 114) is the whole of the posted data, so a
\* key 'tickets' of the post is a key of the skeleton; the later steps iterate
\* over its value, and the empty string is a ticket list without a ticket
skeleton(slug, rate_set, name, data) ==
    [workshop |-> slug,
     rates |-> values_id_name(rate_set),
     qty |-> data,
     order_total |-> DecimalStr(order_total_of(rate_set, data)),
     name |-> name,
     has_tickets |-> "tickets" \in DOMAIN data,
     tickets |-> <<>>]

\* the quantity fields of the form built for a rate set
FormData(rate_set) == [{Rate(id).name : id \in Range(rate_set)} -> 0..MaxQty]

\* posts of the form's fields together with an empty field named tickets,
\* which is no field of the form (a non-empty one makes the later steps fail
\* with TypeError and is not drawn)
CraftedData(rate_set) == {data @@ ("tickets" :> "") : data \in FormData(rate_set)}

\* what the form reads of a post: the values of its own fields
quantities(rate_set, data) == [n \in {Rate(id).name : id \in Range(rate_set)} |-> data[n]]

\* WorkshopDetail.post: POST /<slug>/ with the contact name and the quantities
WorkshopDetail_post(u, slug, name, data) ==
    LET rate_set == filter_rates(slug, session[u].discount_code) IN
    /\ pc[u] = "idle"
    /\ quantities(rate_set, data) \in FormData(rate_set)
    /\ IF form_is_valid(rate_set, data)
       THEN /\ session' = [session EXCEPT ![u].order =
                             <<skeleton(slug, rate_set, name, data)>>]
            /\ resp' = Redirect("order_details", slug)
       ELSE /\ resp' = Page("details_invalid", slug)
            /\ UNCHANGED session
    /\ UNCHANGED <<orders, items, pc, order, gateway, last_code, placed>>

\* ------------------------------------------------------ Attendee Form Set
\* range(n) repeated: n copies of x
Repeat(x, n) == [i \in 1..n |-> x]

\* mutant: one subform per rate, whatever the quantity
get_initial_one_each(rates, qty) == [i \in DOMAIN rates |-> rates[i].id]

\* OrderDetail.get_initial: one {'rate': id} per requested ticket, in skeleton order
RECURSIVE get_initial(_, _)
get_initial(rates, qty) ==
    IF rates = <<>> THEN <<>>
    ELSE Repeat(Head(rates).id, qty[Head(rates).name]) \o get_initial(Tail(rates), qty)

\* SessionConfirmMixin.get: the guard in front of the GET of a downstream view
SessionConfirmMixin_redirects(u) == ~has_order(u)

\* OrderDetail.get: GET /<slug>/order/
OrderDetail_get(u, slug) ==
    /\ pc[u] = "idle"
    /\ resp' = IF SessionConfirmMixin_redirects(u)
               THEN Redirect("details", slug)
               ELSE [Page("order_details", slug) EXCEPT
                       !.forms = get_initial(session[u].order[1].rates,
                                             session[u].order[1].qty)]
    /\ UNCHANGED <<session, orders, items, pc, order, gateway, last_code, placed>>

\* the form-<i>-rate values a browser posts back: those of the rendered
\* subforms (nothing to post back without a session order)
rendered_forms(u) ==
    IF has_order(u)
    THEN get_initial(session[u].order[1].rates, session[u].order[1].qty)
    ELSE <<>>

\* the form-<i>-rate values of any formset post of up to MaxQty subforms: a
\* browser may post a formset rendered for an earlier skeleton (a second
\* tab, the back button), and formset_valid reads the posted data as it is
TicketPosts == UNION {[1..n -> RateIds] : n \in 0..MaxQty}

\* OrderDetail.post: POST /<slug>/order/; get_initial runs while the formset is
\* built, before any validation, and raises KeyError without a session order
OrderDetail_post(u, slug, posted, is_valid) ==
    /\ pc[u] = "idle"
    /\ IF ~has_order(u)
       THEN /\ resp' = ServerError
            /\ UNCHANGED session
       ELSE IF is_valid
       THEN /\ session' = [session EXCEPT ![u].order[1].has_tickets = TRUE,
                                          ![u].order[1].tickets = posted]
            /\ resp' = Redirect("confirm", slug)
       ELSE /\ resp' = Page("order_details_invalid", slug)
            /\ UNCHANGED session
    /\ UNCHANGED <<orders, items, pc, order, gateway, last_code, placed>>

\* ------------------------------------------------------ Order Confirmation
\* ConfirmOrder.get: GET /<slug>/confirm/; order['tickets'] raises KeyError
\* while the skeleton has no ticket list
ConfirmOrder_get(u, slug) ==
    /\ pc[u] = "idle"
    /\ resp' = IF SessionConfirmMixin_redirects(u) THEN Redirect("details", slug)
               ELSE IF ~session[u].order[1].has_tickets THEN ServerError
               ELSE [Page("confirm", slug) EXCEPT !.forms = session[u].order[1].tickets]
    /\ UNCHANGED <<session, orders, items, pc, order, gateway, last_code, placed>>

\* -------------------------------------------------------- Order Submission
\* the rates dict of SubmitOrder.post: tickets per rate
tally(tickets, id) == Cardinality({i \in DOMAIN tickets : tickets[i] = id})

\* mutant: the check lets one ticket too many through
over_capacity_off_by_one(id, quantity) ==
    ticket_count(id) + quantity > Rate(id).capacity + 1

\* the condition of the capacity check for one rate of the dict
over_capacity(id, quantity) == ticket_count(id) + quantity > Rate(id).capacity

\* mutant: the check also counts the tickets of the submissions that passed
\* it and have not inserted their OrderItems yet
violations_reserving(tickets) ==
    LET holders == {v \in Users : pc[v] \in {"create", "bulk_create"}}
        held(id) == UNION {{<<v, i>> : i \in {j \in DOMAIN session[v].order[1].tickets :
                                                session[v].order[1].tickets[j] = id}} :
                           v \in holders}
    IN  {id \in Range(tickets) :
            over_capacity(id, tally(tickets, id) + Cardinality(held(id)))}

\* the rates of the dict for which the check fails
violations(tickets) ==
    {id \in Range(tickets) : over_capacity(id, tally(tickets, id))}

\* the redirect with messages.warning(... rate.name, remaining)
CapacityWarning(slug, id) ==
    [Redirect("details", slug) EXCEPT
        !.rate = Rate(id).name,
        !.remaining = Rate(id).capacity - ticket_count(id)]

\* Orders inserted or about to be inserted
reserved == Len(orders) + Cardinality({u \in Users : pc[u] = "create"})

\* SubmitOrder.post up to the capacity check (lines 202-222), on a POST to
\* /<slug>/submit/: the session read, the tally and the read of every rate's
\* ticket_count.  The dict is walked in an order the language does not fix,
\* so any failing rate may be the one reported.  The view never reads slug.
SubmitOrder_check(u, slug) ==
    /\ pc[u] = "idle"
    /\ IF ~has_order(u) \/ ~session[u].order[1].has_tickets
       THEN /\ resp' = ServerError
            /\ UNCHANGED pc
       ELSE IF violations(session[u].order[1].tickets) # {}
       THEN /\ \E id \in violations(session[u].order[1].tickets) :
                  resp' = CapacityWarning(session[u].order[1].workshop, id)
            /\ UNCHANGED pc
       ELSE /\ reserved < MaxOrders
            /\ pc' = [pc EXCEPT ![u] = "create"]
            /\ UNCHANGED resp
    /\ UNCHANGED <<session, orders, items, order, gateway, last_code, placed>>

Null == "NULL"      \* a NULL column

\* Order.objects.create(contact_name, order_total) (lines 224-226)
new_order(order_data) ==
    [contact_name |-> order_data.name,
     order_total |-> ParseDecimal(order_data.order_total),
     billed_total |-> Null,
     billed_datetime |-> Null]

SubmitOrder_create(u) ==
    /\ pc[u] = "create"
    /\ orders' = Append(orders, new_order(session[u].order[1]))
    /\ order' = [order EXCEPT ![u] = Len(orders) + 1]
    /\ pc' = [pc EXCEPT ![u] = "bulk_create"]
    /\ placed' = Append(placed, session[u].order[1].tickets)
    /\ UNCHANGED <<session, items, gateway, resp, last_code>>

\* mutant: the last ticket gets no OrderItem
new_items_but_last(id, tickets) ==
    [i \in 1..(Len(tickets) - 1) |-> [order |-> id, rate |-> tickets[i]]]

\* the OrderItem rows built for the tickets (lines 227-230)
new_items(id, tickets) == [i \in DOMAIN tickets |-> [order |-> id, rate |-> tickets[i]]]

\* OrderItem.objects.bulk_create(items) (line 232)
SubmitOrder_bulk_create(u) ==
    /\ pc[u] = "bulk_create"
    /\ items' = items \o new_items(order[u], session[u].order[1].tickets)
    /\ pc' = [pc EXCEPT ![u] = "pay"]
    /\ UNCHANGED <<session, orders, order, gateway, resp, last_code, placed>>

\* str.split(sep) for a one-character sep: the pieces between the separators
RECURSIVE split(_, _)
split(str, sep) ==
    IF \A i \in DOMAIN str : str[i] # sep THEN <<str>>
    ELSE LET i == CHOOSE i \in DOMAIN str :
                      str[i] = sep /\ \A j \in 1..(i - 1) : str[j] # sep
         IN  <<SubSeq(str, 1, i - 1)>> \o split(SubSeq(str, i + 1, Len(str)), sep)

\* urllib.parse.quote_plus: a space becomes +, a character outside the safe
\* set its %XX escape, letters stay
RECURSIVE qp(_)
qp(str) ==
    IF str = <<>> THEN <<>>
    ELSE (CASE Head(str) = " " -> <<"+">>
            [] Head(str) = "'" -> <<"%", "2", "7">>
            [] OTHER -> <<Head(str)>>) \o qp(Tail(str))

\* BILL_CUSTOMER_FIRSTNAME (line 248): qp(name[0])
first_name(name) == qp(name[1])

\* mutant: the second piece, not the last one
last_name_second(name) == IF Len(name) > 1 THEN qp(name[2]) ELSE <<>>

\* BILL_CUSTOMER_LASTNAME (line 249): qp(name[-1]) if len(name) > 1 else ''
last_name(name) == IF Len(name) > 1 THEN qp(name[Len(name)]) ELSE <<>>

\* the payload of the gateway request (lines 238-263)
payload(id, order_data) ==
    [unique_id |-> id, sTotal |-> order_data.order_total,
     BILL_CUSTOMER_FIRSTNAME |-> first_name(split(chars(order_data.name), " ")),
     BILL_CUSTOMER_LASTNAME |-> last_name(split(chars(order_data.name), " ")),
     metadata |-> [i \in DOMAIN order_data.tickets |->
                     [name |-> Rate(order_data.tickets[i]).name,
                      price |-> DecimalStr(Rate(order_data.tickets[i]).price)]]]

GatewayStatus == {200, 502}

\* del request.session['order'], requests.post and the relayed response
\* (lines 236-267); the session is the user's own and the gateway is outside
\* the system, so no other request observes a state between the three
SubmitOrder_pay(u, status) ==
    /\ pc[u] = "pay"
    /\ session' = [session EXCEPT ![u].order = NoOrder]
    /\ gateway' = Append(gateway, payload(order[u], session[u].order[1]))
    /\ resp' = [NoResp EXCEPT !.kind = "gateway", !.status = status]
    /\ pc' = [pc EXCEPT ![u] = "idle"]
    /\ order' = [order EXCEPT ![u] = 0]
    /\ UNCHANGED <<orders, items, last_code, placed>>

\* the request dies after Order.objects.create and before bulk_create (the
\* database connection drops, the worker is killed): nothing in the view
\* wraps lines 224-232 in a transaction, so the inserted Order row stays
SubmitOrder_abort(u) ==
    /\ pc[u] = "bulk_create"
    /\ resp' = ServerError
    /\ pc' = [pc EXCEPT ![u] = "idle"]
    /\ order' = [order EXCEPT ![u] = 0]
    /\ UNCHANGED <<session, orders, items, gateway, last_code, placed>>

\* requests.post raises (the gateway cannot be reached): no handler catches
\* it, so the answer is the 500 error page; del request.session['order'] has
\* run, and whether it reaches the session store is not decided by the view
\* (kept: the session middleware does not save the session of a 500 response)
SubmitOrder_pay_fails(u, kept) ==
    /\ pc[u] = "pay"
    /\ session' = IF kept THEN session ELSE [session EXCEPT ![u].order = NoOrder]
    /\ resp' = ServerError
    /\ pc' = [pc EXCEPT ![u] = "idle"]
    /\ order' = [order EXCEPT ![u] = 0]
    /\ UNCHANGED <<orders, items, gateway, last_code, placed>>

\* ------------------------------------------------------ Settlement Callback
\* request.POST of a callback: keys are the fields that are present, and a
\* field that is absent has no value to choose
CallbackPosts ==
    {post \in [keys : SUBSET CallbackFields, unique_id : 1..(MaxOrders + 1),
               amount : Amounts, date_time : DateTimes] :
        /\ "unique_id" \notin post.keys => post.unique_id = 1
        /\ "amount" \notin post.keys => post.amount = "10.00"
        /\ "date_time" \notin post.keys => post.date_time = "t1"}

\* Order.objects.get(transaction_id=...) finds a row
order_exists(unique_id) == unique_id \in DOMAIN orders

\* mutant: the Order is saved before date_time is read
callback_ok_early_save(post) ==
    /\ "unique_id" \in post.keys
    /\ order_exists(post.unique_id)
    /\ "amount" \in post.keys

\* the try block of OrderCallback.post succeeds: no KeyError, no DoesNotExist
callback_ok(post) ==
    /\ "unique_id" \in post.keys
    /\ order_exists(post.unique_id)
    /\ "amount" \in post.keys
    /\ "date_time" \in post.keys

\* mutant: the billed amount also replaces the Order's total
billed_over_total(o, amount, date_time) ==
    [o EXCEPT !.billed_total = amount, !.billed_datetime = date_time,
              !.order_total = IF amount = "10.00" THEN 1000 ELSE 1250]

\* the row order.save() writes
billed(o, amount, date_time) ==
    [o EXCEPT !.billed_total = amount, !.billed_datetime = date_time]

\* OrderCallback.post
OrderCallback_post(post) ==
    /\ IF callback_ok(post)
       THEN /\ orders' = [orders EXCEPT ![post.unique_id] =
                            billed(@, post.amount, post.date_time)]
            /\ resp' = [NoResp EXCEPT !.kind = "callback", !.status = 200]
       ELSE /\ resp' = [NoResp EXCEPT !.kind = "callback", !.status = 400]
            /\ UNCHANGED orders
    /\ UNCHANGED <<session, items, pc, order, gateway, last_code, placed>>

\* ------------------------------------------------------ next-state relations
\* requests of the users US for the workshops SL
Catalog(US) ==
    \E u \in US, code \in AccessCodes \cup {None} : WorkshopList_get(u, code)

Details(US, SL) ==
    \E u \in US, slug \in SL, rate \in DiscountCodes \cup {None} :
        WorkshopDetail_get(u, slug, rate)

Select(US, SL) ==
    \E u \in US, slug \in SL :
        \E data \in FormData(filter_rates(slug, session[u].discount_code)) :
            WorkshopDetail_post(u, slug, contact_name(u), data)

\* rate selections under any of the purchaser names
SelectNamed(US, SL) ==
    \E u \in US, slug \in SL, name \in PurchaserNames :
        \E data \in FormData(filter_rates(slug, session[u].discount_code)) :
            WorkshopDetail_post(u, slug, name, data)

\* rate selections whose post carries the extra field
SelectCrafted(US, SL) ==
    \E u \in US, slug \in SL :
        \E data \in CraftedData(filter_rates(slug, session[u].discount_code)) :
            WorkshopDetail_post(u, slug, contact_name(u), data)

Attendees(US, SL) ==
    \/ \E u \in US, slug \in SL : OrderDetail_get(u, slug)
    \/ \E u \in US, slug \in SL, is_valid \in BOOLEAN :
          OrderDetail_post(u, slug, rendered_forms(u), is_valid)

\* formset posts that need not be the ones rendered for the session order
AttendeesPosting(US, SL) ==
    \E u \in US, slug \in SL, posted \in TicketPosts, is_valid \in BOOLEAN :
        OrderDetail_post(u, slug, posted, is_valid)

Confirm(US, SL) ==
    \E u \in US, slug \in SL : ConfirmOrder_get(u, slug)

Submit(US) ==
    \/ \E u \in US, slug \in Slugs : SubmitOrder_check(u, slug)
    \/ \E u \in US : SubmitOrder_create(u)
    \/ \E u \in US : SubmitOrder_bulk_create(u)
    \/ \E u \in US, status \in GatewayStatus : SubmitOrder_pay(u, status)

Faults(US) ==
    \/ \E u \in US : SubmitOrder_abort(u)
    \/ \E u \in US, kept \in BOOLEAN : SubmitOrder_pay_fails(u, kept)

Callback ==
    \E post \in CallbackPosts : OrderCallback_post(post)

\* two visitors buying tickets of workshop w1 at the same time
Next ==
    \/ Select(Users, {"w1"})
    \/ Attendees(Users, {"w1"})
    \/ Confirm(Users, {"w1"})
    \/ Submit(Users)

Spec == Init /\ [][Next]_vars

\* two visitors at the Catalog and at the Rate Selector's view
NextBrowse == Catalog(Users) \/ Details(Users, Slugs)

SpecBrowse == Init /\ [][NextBrowse]_vars

\* one visitor going through every step for any workshop
NextVisitor ==
    \/ Details({"u1"}, Slugs)
    \/ Select({"u1"}, Slugs)
    \/ Attendees({"u1"}, Slugs)
    \/ Confirm({"u1"}, Slugs)
    \/ Submit({"u1"})

SpecVisitor == Init /\ [][NextVisitor]_vars

\* one visitor buying tickets of workshop w1 and the gateway calling back
NextSettle ==
    \/ Select({"u1"}, {"w1"})
    \/ Attendees({"u1"}, {"w1"})
    \/ Submit({"u1"})
    \/ Callback

SpecSettle == Init /\ [][NextSettle]_vars

\* one visitor buying tickets of workshop w1 while requests may fail
NextFaults ==
    \/ Select({"u1"}, {"w1"})
    \/ Attendees({"u1"}, {"w1"})
    \/ Submit({"u1"})
    \/ Faults({"u1"})

SpecFaults == Init /\ [][NextFaults]_vars

\* one visitor buying tickets of workshop w1 and posting any formset
NextPosting ==
    \/ Select({"u1"}, {"w1"})
    \/ AttendeesPosting({"u1"}, {"w1"})
    \/ Submit({"u1"})

SpecPosting == Init /\ [][NextPosting]_vars

\* one visitor buying tickets of workshop w1 with posts of any content
NextCrafted ==
    \/ Select({"u1"}, {"w1"})
    \/ SelectCrafted({"u1"}, {"w1"})
    \/ Attendees({"u1"}, {"w1"})
    \/ Confirm({"u1"}, {"w1"})
    \/ Submit({"u1"})

SpecCrafted == Init /\ [][NextCrafted]_vars

\* one visitor buying tickets of workshop w1 under any name
NextNames ==
    \/ SelectNamed({"u1"}, {"w1"})
    \/ Attendees({"u1"}, {"w1"})
    \/ Submit({"u1"})

SpecNames == Init /\ [][NextNames]_vars

\* ================================================================= claims
\* OrderItem rows that reference a rate, counted on the table itself
sold(id) == Cardinality({i \in DOMAIN items : items[i].rate = id})

\* tickets of a rate in a user's session order
requested(u, id) ==
    Cardinality({i \in DOMAIN session[u].order[1].tickets :
                    session[u].order[1].tickets[i] = id})

\* the rates of the OrderItem rows linked to an Order, in insertion order
rates_of(tbl, id) ==
    LET linked == SelectSeq(tbl, LAMBDA item : item.order = id)
    IN  [i \in DOMAIN linked |-> linked[i].rate]

\* C1: in every reachable state, whatever the interleaving of the users'
\* submissions, no rate has more tickets sold than its capacity.
C1_NeverOversold == \A id \in RateIds : sold(id) <= Rate(id).capacity

\* C2: a submission whose session tickets of some rate (a rate the order
\* holds a ticket of), added to the tickets sold of that rate, exceed the
\* rate's capacity inserts no Order and no OrderItem, posts nothing to the
\* gateway, and answers with a redirect to the Rate Selector of the order's
\* workshop, with a warning that names such a rate and reports
\* capacity - ticket_count as remaining.
C2_CapacityFailure ==
    [][\A u \in Users, slug \in Slugs :
         (/\ SubmitOrder_check(u, slug)
          /\ has_order(u)
          /\ session[u].order[1].has_tickets
          /\ \E id \in RateIds : /\ requested(u, id) > 0
                                 /\ sold(id) + requested(u, id) > Rate(id).capacity)
         => /\ orders' = orders
            /\ items' = items
            /\ gateway' = gateway
            /\ pc'[u] = "idle"
            /\ resp'.kind = "details"
            /\ resp'.status = 302
            /\ resp'.slug = session[u].order[1].workshop
            /\ \E id \in RateIds :
                  /\ requested(u, id) > 0
                  /\ sold(id) + requested(u, id) > Rate(id).capacity
                  /\ resp'.rate = Rate(id).name
                  /\ resp'.remaining = Rate(id).capacity - sold(id)]_vars

\* C2 witness: capacity 2, one ticket sold, two tickets in the session, and
\* the submission was answered with the warning that one ticket remains
C2_Witness ==
    /\ resp.kind = "details"
    /\ resp.status = 302
    /\ resp.rate = "standard"
    /\ resp.remaining = 1
    /\ sold("r1") = 1
    /\ \E u \in Users : has_order(u) /\ requested(u, "r1") = 2

C4_NoOrderRedirects ==
    [][\A u \in Users, slug \in Slugs :
         (/\ ~has_order(u)
          /\ \/ OrderDetail_get(u, slug)
             \/ \E is_valid \in BOOLEAN : OrderDetail_post(u, slug, <<>>, is_valid)
             \/ ConfirmOrder_get(u, slug)
             \/ SubmitOrder_check(u, slug))
         => /\ resp' = Redirect("details", slug)
            /\ UNCHANGED <<session, orders, items, gateway>>]_vars

\* C5: in every reachable state, a callback whose unique_id matches an Order
\* and that carries amount and date_time sets that Order's billed_total and
\* billed_datetime to the posted values and is answered 200; a callback whose
\* unique_id matches no Order, or that lacks unique_id, amount or date_time,
\* is answered 400 and leaves the Order table as it was.
C5_Callback ==
    \A post \in CallbackPosts :
        ENABLED (/\ OrderCallback_post(post)
                 /\ resp'.kind = "callback"
                 /\ IF post.keys = CallbackFields /\ post.unique_id \in DOMAIN orders
                    THEN /\ orders'[post.unique_id].billed_total = post.amount
                         /\ orders'[post.unique_id].billed_datetime = post.date_time
                         /\ resp'.status = 200
                    ELSE /\ resp'.status = 400
                         /\ orders' = orders)

\* C5 witness: the callback for Order 1 was answered 200 and the Order
\* carries the posted amount and time
C5_Witness ==
    /\ resp.kind = "callback"
    /\ resp.status = 200
    /\ 1 \in DOMAIN orders
    /\ orders[1].billed_total = "12.50"
    /\ orders[1].billed_datetime = "t2"

\* C6: an Order's billed_total and billed_datetime are NULL when it is
\* inserted, and once a callback has set them no later step changes them.
C6_SettledOnce ==
    [][/\ Len(orders') > Len(orders)
          => /\ orders'[Len(orders')].billed_total = Null
             /\ orders'[Len(orders')].billed_datetime = Null
       /\ \A id \in DOMAIN orders :
            orders[id].billed_total # Null
            => /\ orders'[id].billed_total = orders[id].billed_total
               /\ orders'[id].billed_datetime = orders[id].billed_datetime]_vars

\* C7: nothing ties the capacity check to the inserts: while another
\* submission that passed the check has not inserted its OrderItems yet, a
\* submission that fits what is left according to the OrderItem table passes
\* the check as well, whatever the other one is about to insert.
C7_CheckIgnoresPending ==
    \A u \in Users, v \in Users :
        (/\ u # v
         /\ pc[u] = "idle"
         /\ pc[v] \in {"create", "bulk_create"}
         /\ has_order(u)
         /\ session[u].order[1].has_tickets
         /\ \A id \in RateIds : sold(id) + requested(u, id) <= Rate(id).capacity
         /\ reserved < MaxOrders)
        => ENABLED (SubmitOrder_check(u, "w1") /\ pc'[u] = "create")

\* C7 witness: two submissions that each fitted have both committed and the
\* rate is oversold
C7_Oversold ==
    /\ Len(orders) = 2
    /\ rates_of(items, 1) = <<"r1">>
    /\ rates_of(items, 2) = <<"r1", "r1">>
    /\ sold("r1") > Rate("r1").capacity

\* the sum of quantity times price over a set of rates
RECURSIVE total_over(_, _)
total_over(ids, data) ==
    IF ids = {} THEN 0
    ELSE LET id == CHOOSE id \in ids : TRUE
         IN  data[Rate(id).name] * Rate(id).price + total_over(ids \ {id}, data)

\* the rates of a workshop that are offered for a discount code
offered_rates(slug, code) ==
    {id \in RateIds : /\ Rate(id).workshop = slug
                      /\ (Rate(id).discount => Rate(id).discount_code = code)}

\* C8: every accepted rate selection writes a skeleton whose order_total is
\* the exact sum of quantity times price over the workshop's offered rates,
\* and that records the workshop slug and the id and name of every offered
\* rate.
C8_OrderTotal ==
    [][resp'.kind = "order_details"
       => \A u \in Users, slug \in {resp'.slug} :
          \A data \in FormData(filter_rates(slug, session[u].discount_code)) :
            WorkshopDetail_post(u, slug, contact_name(u), data)
            => LET o == session'[u].order[1]
                   ids == offered_rates(slug, session[u].discount_code)
                   total == total_over(ids, data)
               IN  /\ o.order_total = <<total \div 100, total % 100>>
                   /\ ParseDecimal(o.order_total) = total
                   /\ o.workshop = slug
                   /\ {<<o.rates[i].id, o.rates[i].name>> : i \in DOMAIN o.rates}
                        = {<<id, Rate(id).name>> : id \in ids}
                   /\ Len(o.rates) = Cardinality(ids)
                   /\ \A id \in ids : o.qty[Rate(id).name] = data[Rate(id).name]]_vars

\* C8 witness: one standard and one student ticket of w1 were selected and
\* the skeleton holds the total 2.25
C8_Witness ==
    /\ resp = Redirect("order_details", "w1")
    /\ has_order("u1")
    /\ session["u1"].order[1].workshop = "w1"
    /\ Len(session["u1"].order[1].rates) = 2
    /\ session["u1"].order[1].qty = [standard |-> 1, student |-> 1]
    /\ session["u1"].order[1].order_total = <<2, 25>>

\* C9: the Catalog lists the workshops whose private code is the supplied
\* code when a non-empty code is supplied and some workshop matches, and the
\* workshops that are public and not drafts otherwise.
C9_CatalogListing ==
    [][\A u \in Users, code \in AccessCodes \cup {None} :
         WorkshopList_get(u, code)
         => LET matched == {s \in Slugs : Workshop(s).private_code = code}
            IN  resp'.listing =
                  IF code \notin {None, ""} /\ matched # {}
                  THEN matched
                  ELSE {s \in Slugs : Workshop(s).public /\ ~Workshop(s).draft}]_vars

\* C10: the Rate Selector's view marks the workshop purchasable exactly when
\* it is public or its private code is the last non-empty code the viewer
\* passed to the Catalog.
C10_Purchasable ==
    [][\A u \in Users, slug \in Slugs, rate \in DiscountCodes \cup {None} :
         (WorkshopDetail_get(u, slug, rate) /\ resp'.kind = "details")
         => (resp'.purchasable
               <=> (Workshop(slug).public \/ last_code[u] = Workshop(slug).private_code))]_vars

\* C10 witness: a viewer who passed the code of the unlisted workshop w2 to
\* the Catalog sees w2 as purchasable
C10_Witness ==
    /\ resp.kind = "details"
    /\ resp.slug = "w2"
    /\ resp.purchasable
    /\ \E u \in Users : last_code[u] = "c1" /\ session[u].private_code = "c1"

\* the sum of the quantities requested for the rates of a skeleton
RECURSIVE qty_sum(_, _)
qty_sum(rates, qty) ==
    IF rates = <<>> THEN 0 ELSE qty[Head(rates).name] + qty_sum(Tail(rates), qty)

\* C11: the Attendee Form Set rendered for a session order holds, for every
\* rate of the skeleton, as many subforms tagged with the rate's id as the
\* quantity requested for it, grouped in the order of the skeleton's rates,
\* and no other subform: their number is the sum of the quantities.
C11_InitialForms ==
    [][\A u \in Users, slug \in Slugs :
         (has_order(u) /\ OrderDetail_get(u, slug))
         => LET o == session[u].order[1]
                F == resp'.forms
                pos(id) == CHOOSE i \in DOMAIN o.rates : o.rates[i].id = id
            IN  /\ resp'.kind = "order_details"
                /\ resp'.status = 200
                /\ Len(F) = qty_sum(o.rates, o.qty)
                /\ \A i \in DOMAIN o.rates :
                      Cardinality({k \in DOMAIN F : F[k] = o.rates[i].id})
                        = o.qty[o.rates[i].name]
                /\ \A k \in DOMAIN F : \E i \in DOMAIN o.rates : F[k] = o.rates[i].id
                /\ \A k1 \in DOMAIN F, k2 \in DOMAIN F :
                      k1 < k2 => pos(F[k1]) <= pos(F[k2])]_vars

\* C11 witness: two standard tickets and one student ticket were requested
\* and three subforms were rendered, standard first
C11_Witness ==
    /\ resp.kind = "order_details"
    /\ resp.status = 200
    /\ has_order("u1")
    /\ session["u1"].order[1].qty = [standard |-> 2, student |-> 1]
    /\ resp.forms = <<"r1", "r1", "r2">>

\* the positions of the spaces of a string
spaces(str) == {i \in DOMAIN str : str[i] = " "}

\* the part of a string before its first space
before_first_space(str) ==
    SubSeq(str, 1, (CHOOSE i \in spaces(str) : \A j \in spaces(str) : i <= j) - 1)

\* the part of a string after its last space
after_last_space(str) ==
    SubSeq(str, (CHOOSE i \in spaces(str) : \A j \in spaces(str) : i >= j) + 1, Len(str))

\* C12 as stated: in every gateway payload the first name is the part of the
\* Order's contact_name before its first space and the last name the part
\* after its last space; a contact_name without a space gives the whole name
\* as first name and the empty string as last name.
C12_NameSplit ==
    \A i \in DOMAIN gateway :
        LET str == chars(orders[gateway[i].unique_id].contact_name)
        IN  IF spaces(str) = {}
            THEN /\ gateway[i].BILL_CUSTOMER_FIRSTNAME = str
                 /\ gateway[i].BILL_CUSTOMER_LASTNAME = <<>>
            ELSE /\ gateway[i].BILL_CUSTOMER_FIRSTNAME = before_first_space(str)
                 /\ gateway[i].BILL_CUSTOMER_LASTNAME = after_last_space(str)

\* C12 amended: in every gateway payload the first name is the URL-escaped
\* (quote_plus) part of the Order's contact_name before its first space and
\* the last name the URL-escaped part after its last space; a contact_name
\* without a space gives the whole escaped name as first name and the empty
\* string as last name.
C12_NameSplitEscaped ==
    \A i \in DOMAIN gateway :
        LET str == chars(orders[gateway[i].unique_id].contact_name)
        IN  IF spaces(str) = {}
            THEN /\ gateway[i].BILL_CUSTOMER_FIRSTNAME = qp(str)
                 /\ gateway[i].BILL_CUSTOMER_LASTNAME = <<>>
            ELSE /\ gateway[i].BILL_CUSTOMER_FIRSTNAME = qp(before_first_space(str))
                 /\ gateway[i].BILL_CUSTOMER_LASTNAME = qp(after_last_space(str))

\* C12 witness: payloads were sent for Jane Doe (Jane / Doe) and for Mary Ann
\* O'Hara (Mary / O%27Hara)
C12_Witness ==
    /\ Len(gateway) = 2
    /\ orders[gateway[1].unique_id].contact_name = "Jane Doe"
    /\ gateway[1].BILL_CUSTOMER_FIRSTNAME = <<"J", "a", "n", "e">>
    /\ gateway[1].BILL_CUSTOMER_LASTNAME = <<"D", "o", "e">>
    /\ orders[gateway[2].unique_id].contact_name = "Mary Ann O'Hara"
    /\ gateway[2].BILL_CUSTOMER_FIRSTNAME = <<"M", "a", "r", "y">>
    /\ gateway[2].BILL_CUSTOMER_LASTNAME = <<"O", "%", "2", "7", "H", "a", "r", "a">>

\* C13: in every reachable state, also after a request failed between the
\* Order insert and the OrderItem bulk insert, every Order of the table has
\* an OrderItem for every ticket of the session order it was created from.
C13_AtomicCommit ==
    \A id \in DOMAIN orders : Len(rates_of(items, id)) >= Len(placed[id])

\* C14: the step of an accepted submission that follows the commit finds the
\* Order and its OrderItems in the tables, leaves them there with the billed
\* fields NULL, leaves the session without an order, sends one gateway
\* request and answers with the gateway's status, whatever the gateway does.
C14_RelayAfterCommit ==
    [][\A u \in Users :
         (pc[u] = "pay" /\ pc'[u] # "pay")
         => /\ order[u] \in DOMAIN orders
            /\ rates_of(items, order[u]) = session[u].order[1].tickets
            /\ orders' = orders
            /\ items' = items
            /\ orders'[order[u]].billed_total = Null
            /\ orders'[order[u]].billed_datetime = Null
            /\ ~has_order(u)'
            /\ Len(gateway') = Len(gateway) + 1
            /\ resp'.kind = "gateway"
            /\ resp'.status \in GatewayStatus]_vars

\* C15: every view of the Rate Selector, of whatever workshop and also when
\* it is answered with the redirect for drafts, sets the session's discount
\* code to its rate parameter (none without one), and no other request
\* changes it; every rate of a skeleton the Rate Selector writes is a rate
\* of the selected workshop that either has no discount or has exactly the
\* discount code the session holds at that moment.
C15_SkeletonRates ==
    [][\A u \in Users :
         /\ \A slug \in Slugs \cap {resp'.slug}, rate \in DiscountCodes \cup {None} :
               WorkshopDetail_get(u, slug, rate) => session'[u].discount_code = rate
         /\ \A slug \in Slugs, rate \in DiscountCodes \cup {None} :
               (resp' = Redirect("index", "") /\ WorkshopDetail_get(u, slug, rate))
               => session'[u].discount_code = rate
         /\ (\/ resp'.kind \notin {"details", "index"}
             \/ ~\E slug \in Slugs, rate \in DiscountCodes \cup {None} :
                   WorkshopDetail_get(u, slug, rate))
               => session'[u].discount_code = session[u].discount_code
         /\ resp'.kind = "order_details" /\ resp'.status = 302
               => \A slug \in {resp'.slug} :
                  \A data \in FormData(filter_rates(slug, session[u].discount_code)) :
                     WorkshopDetail_post(u, slug, contact_name(u), data)
                     => \A i \in DOMAIN session'[u].order[1].rates :
                          LET id == session'[u].order[1].rates[i].id
                          IN  /\ Rate(id).workshop = slug
                              /\ \/ ~Rate(id).discount
                                 \/ Rate(id).discount_code = session[u].discount_code]_vars

\* C15 witness: after a view with ?rate=d1 the skeleton holds the discount
\* rate r2, and after a later view without the parameter a new skeleton
\* holds the standard rate only
C15_Witness ==
    /\ resp = Redirect("order_details", "w1")
    /\ session["u1"].discount_code = None
    /\ has_order("u1")
    /\ [i \in DOMAIN session["u1"].order[1].rates |-> session["u1"].order[1].rates[i].id]
         = <<"r1">>
    /\ \E i \in DOMAIN gateway : \E k \in DOMAIN gateway[i].metadata :
          gateway[i].metadata[k].name = "student"

\* C16: a callback that is answered 200 changes nothing but billed_total and
\* billed_datetime of the Order whose transaction_id it posted: the other
\* Orders, that Order's contact_name and order_total, the OrderItem table,
\* the sessions, the running submissions and the gateway requests stay as
\* they were, and no Order is added or removed.  (Rates and Workshops are
\* rows no request of the flow writes.)
C16_CallbackFrame ==
    [][(resp'.kind = "callback" /\ resp'.status = 200 /\ pc' = pc)
       => \A post \in CallbackPosts :
            OrderCallback_post(post)
            => /\ post.unique_id \in DOMAIN orders
               /\ DOMAIN orders' = DOMAIN orders
               /\ \A id \in DOMAIN orders : id # post.unique_id => orders'[id] = orders[id]
               /\ orders'[post.unique_id].contact_name = orders[post.unique_id].contact_name
               /\ orders'[post.unique_id].order_total = orders[post.unique_id].order_total
               /\ DOMAIN orders'[post.unique_id] = DOMAIN orders[post.unique_id]
               /\ items' = items
               /\ session' = session
               /\ order' = order
               /\ gateway' = gateway]_vars

\* C16 witness: of two Orders the second one was settled by a callback while
\* the first one is still unbilled and the visitor holds a new session order
C16_Witness ==
    /\ resp.kind = "callback"
    /\ resp.status = 200
    /\ Len(orders) = 2
    /\ orders[1].billed_total = Null
    /\ orders[2].billed_total = "10.00"
    /\ orders[2].order_total = 150
    /\ Len(items) = 2
    /\ has_order("u1")

\* C17: with a session order that has no ticket list yet, the Order
\* Confirmation and the Order Submission answer with a redirect, never with
\* the error page.
C17_NoTicketsRedirects ==
    [][\A u \in Users, slug \in Slugs :
         (/\ has_order(u)
          /\ ~session[u].order[1].has_tickets
          /\ (ConfirmOrder_get(u, slug) \/ SubmitOrder_check(u, slug)))
         => /\ resp' # ServerError
            /\ resp'.status = 302]_vars

\* the sum of the prices of a sequence of rates
RECURSIVE price_sum(_)
price_sum(ids) == IF ids = <<>> THEN 0 ELSE Rate(Head(ids)).price + price_sum(Tail(ids))

\* C18: when a submission has inserted its OrderItems, the Order's
\* order_total is the sum of the prices of their rates and, for every rate
\* of the skeleton, their number is the quantity requested for it, with no
\* OrderItem besides; the sTotal then sent to the gateway is that sum.
C18_TotalMatchesItems ==
    [][\A u \in Users :
         /\ (pc[u] = "bulk_create" /\ pc'[u] = "pay")
            => LET o == session[u].order[1]
                   new == rates_of(items', order[u])
               IN  /\ orders[order[u]].order_total = price_sum(new)
                   /\ \A i \in DOMAIN o.rates :
                         Cardinality({k \in DOMAIN new : new[k] = o.rates[i].id})
                           = o.qty[o.rates[i].name]
                   /\ Len(new) = qty_sum(o.rates, o.qty)
         /\ (pc[u] = "pay" /\ pc'[u] # "pay" /\ Len(gateway') = Len(gateway) + 1)
            => ParseDecimal(gateway'[Len(gateway')].sTotal)
                 = price_sum(rates_of(items, order[u]))]_vars

\* C19: a Rate Selector submission for a workshop that is not purchasable
\* for the viewer (not public and not unlocked by the session's access
\* code), or that is a draft while the viewer is not authenticated, leaves
\* the session order as it was.
C19_OnlyPurchasable ==
    [][resp'.kind \in {"order_details", "details_invalid"}
       => \A u \in Users, slug \in {resp'.slug} :
            (\/ ~purchasable(slug, session[u].private_code)
             \/ (Workshop(slug).draft /\ ~is_authenticated(u)))
            => \A data \in FormData(filter_rates(slug, session[u].discount_code)) :
                 WorkshopDetail_post(u, slug, contact_name(u), data)
                 => session'[u].order = session[u].order]_vars

\* C20: an accepted rate selection leaves in the session an order for the
\* selected workshop that has no ticket list, whatever the session held
\* before; and a step after which the session order holds a ticket list it
\* did not hold before is an accepted Attendee Form Set submission, which
\* puts the list into the order that is there and leaves its workshop,
\* rates, quantities, total and contact name as the selection wrote them.
C20_FreshSkeleton ==
    [][\A u \in Users :
         /\ (/\ resp'.kind = "order_details"
             /\ resp'.status = 302
             /\ session'[u].order # session[u].order)
            => /\ has_order(u)'
               /\ ~session'[u].order[1].has_tickets
               /\ session'[u].order[1].workshop = resp'.slug
         /\ (/\ has_order(u)'
             /\ session'[u].order[1].has_tickets
             /\ session'[u].order # session[u].order)
            => /\ has_order(u)
               /\ resp'.kind = "confirm"
               /\ resp'.status = 302
               /\ session'[u].order[1] =
                    [session[u].order[1] EXCEPT
                       !.has_tickets = TRUE,
                       !.tickets = session'[u].order[1].tickets]]_vars
====
